---- MODULE Spec2Model ----
(***************************************************************************)
(* Model of src/balanza.py: the shared real-time state file                *)
(* (balanza_realtime.json), the acquisition thread continuous_reading,     *)
(* the two frame parsers and the sidebar handlers that drive them.         *)
(*                                                                         *)
(* Weights are fixed-point integers in units of 0.0001 kg (Scale per kg).  *)
(* A frame is a sequence of one-character strings; "CR", "LF", "STX",      *)
(* "SP" and "x80" name the bytes 0x0D, 0x0A, 0x02, 0x20 and a byte >= 0x80.*)
(***************************************************************************)
EXTENDS Integers, Sequences, FiniteSets, TLC

VARIABLES
    file,       \* content of REALTIME_FILE: [kind, doc]
    clock,      \* time.time(), in ticks
    simulate,   \* the SIMULATE switch of continuous_reading
    sess,       \* per browser session: st.session_state and the script's snapshot
    hnd,        \* per session: position of the running button handler
    th,         \* per session: its reading_thread (continuous_reading frame)
    log,        \* history: who has written the file, what the loops published
    wr,         \* store clients (SpecStore): writers in write_realtime_data
    rd,         \* store clients (SpecStore): last result of read_realtime_data
    led,        \* per session: the ledger part of st.session_state
    cfg,        \* content of CONFIG_FILE and of PASSWORD_FILE
    today,      \* the date of datetime.now()
    arch,       \* history: how many expeditions have been archived today
    px          \* parser bench (SpecParse): a received frame and its decoding

vars == <<file, clock, simulate, sess, hnd, th, log, wr, rd,
          led, cfg, today, arch, px>>

\* the variables of the ledger and of the parser bench
ledgerVars == <<led, cfg, today, arch>>

-----------------------------------------------------------------------------
(* Bounds *)

MaxClock == 2       \* time.time() ticks distinguished before the clock saturates

MaxRecords == 2     \* weigh records a ledger holds, active and archived together
MaxExp == 2         \* expeditions a ledger holds
MaxDay == 2         \* dates the calendar runs through
MaxFrame == 4       \* bytes of a frame on the parser bench

Scale == 10 ^ 4     \* fixed-point units per kg

-----------------------------------------------------------------------------
(* The JSON document of REALTIME_FILE *)

Status(fmt, arg) == [fmt |-> fmt, arg |-> arg]

Doc(peso, reading, t, status) ==
    [peso |-> peso, reading |-> reading, last_update |-> t, status |-> status]

NullDoc == Doc(0, FALSE, -1, Status("", 0))

\* the (weight, is_acquiring, status) part of a document
Triple(d) == <<d.peso, d.reading, d.status>>

NoFile  == [kind |-> "nofile",  doc |-> NullDoc]
Empty   == [kind |-> "empty",   doc |-> NullDoc]
Corrupt == [kind |-> "corrupt", doc |-> NullDoc]
Json(d) == [kind |-> "json",    doc |-> d]

\* the dict returned when the file is missing or json.load raises
DefaultState(t) == Doc(0, FALSE, t, Status("Detenido", 0))

\* read_realtime_data(): the dict it returns for file content f at time t.
\* os.path.exists is false for "nofile"; json.load raises on an empty or
\* corrupt file and the bare except falls through to the default.  Nothing
\* ever deletes the file, so the exists test and the load that follows it see
\* the same thing as one read of the file at the time of the load.
read_realtime_data_unguarded(f, t) == f.doc
read_realtime_data(f, t) ==
    IF f.kind = "json" THEN f.doc ELSE DefaultState(t)

\* read_realtime_data() opens the file 'r': the content it leaves behind
read_leaves(f, t) == f

\* write_realtime_data, first half: the dict is built (time.time() stamped)
\* and open(REALTIME_FILE, 'w') creates/truncates the file.
write_open_no_truncate(f) == IF f.kind = "nofile" THEN Empty ELSE f
write_open(f) == Empty

\* write_realtime_data, second half: json.dump + close write the text at
\* offset 0 of the handle.  On the file as this call truncated it, the result
\* is the document.  If another writer has written since the truncation, the
\* text lands over that writer's text: the document when it is at least as
\* long, its text followed by the tail of the older text (not JSON) when it is
\* shorter.  Lengths vary with the time stamp, so both outcomes are possible.
write_dump(f, d) ==
    IF f.kind = "empty" THEN {Json(d)} ELSE {Json(d), Corrupt}

Tick(c) == IF c < MaxClock THEN c + 1 ELSE c

-----------------------------------------------------------------------------
(* Frame parsers *)

Digits == {"0", "1", "2", "3", "4", "5", "6", "7", "8", "9"}

DigitVal(c) ==
    CASE c = "0" -> 0 [] c = "1" -> 1 [] c = "2" -> 2 [] c = "3" -> 3
      [] c = "4" -> 4 [] c = "5" -> 5 [] c = "6" -> 6 [] c = "7" -> 7
      [] c = "8" -> 8 [] c = "9" -> 9

RECURSIVE IntOf(_)
\* int(digits)
IntOf(ds) ==
    IF ds = <<>> THEN 0
    ELSE 10 * IntOf(SubSeq(ds, 1, Len(ds) - 1)) + DigitVal(ds[Len(ds)])

\* str.strip(chars) / str.strip(): drop the characters of W at both ends
StripSet(s, W) ==
    IF \A i \in 1..Len(s) : s[i] \in W THEN <<>>
    ELSE LET a == CHOOSE i \in 1..Len(s) :
                    s[i] \notin W /\ \A j \in 1..(i - 1) : s[j] \in W
             b == CHOOSE i \in 1..Len(s) :
                    s[i] \notin W /\ \A j \in (i + 1)..Len(s) : s[j] \in W
         IN  SubSeq(s, a, b)

Whitespace == {"SP", "CR", "LF", "TAB"}

\* index of the first digit of s, 0 when there is none
FirstDigit(s) ==
    IF \E i \in 1..Len(s) : s[i] \in Digits
    THEN CHOOSE i \in 1..Len(s) :
            s[i] \in Digits /\ \A j \in 1..(i - 1) : s[j] \notin Digits
    ELSE 0

\* last index of the run of digits that starts at i (\d+ is greedy)
RunEnd_lazy(s, i) == i
RunEnd(s, i) ==
    CHOOSE j \in i..Len(s) :
        /\ \A k \in i..j : s[k] \in Digits
        /\ (j = Len(s) \/ s[j + 1] \notin Digits)

\* first character of s that lies in W, "" when there is none
FirstOf(s, W) ==
    IF \E i \in 1..Len(s) : s[i] \in W
    THEN s[CHOOSE i \in 1..Len(s) : s[i] \in W /\ \A j \in 1..(i - 1) : s[j] \notin W]
    ELSE ""

Upper_id(c) == c
Upper(c) ==
    CASE c = "k" -> "K" [] c = "l" -> "L" [] c = "g" -> "G" [] c = "n" -> "N"
      [] OTHER -> c

IsAscii(c) == c # "x80"

\* parse_el05_corregido(data_bytes): isNone is the None result
parse_el05_zero_reading(data_bytes) ==
    [isNone |-> FALSE, peso_none |-> FALSE, peso_val |-> 0,
     digits |-> <<"0">>, raw_value |-> 0]
parse_el05_corregido(data_bytes) ==
    LET data_str == StripSet(SelectSeq(data_bytes, IsAscii), Whitespace)
        i == FirstDigit(data_str)
    IN  IF i = 0
        THEN [isNone |-> TRUE, peso_none |-> TRUE, peso_val |-> 0,
              digits |-> <<>>, raw_value |-> 0]
        ELSE LET digits == SubSeq(data_str, i, RunEnd(data_str, i))
                 raw_value == IntOf(digits)
             IN  [isNone |-> FALSE, peso_none |-> FALSE,
                  peso_val |-> raw_value * (Scale \div 10),   \* raw_value / 10.0
                  digits |-> digits, raw_value |-> raw_value]

\* the fraction digits fs as a number of 1/Scale units (Scale = 10^4: the
\* frames of the model carry at most four fraction digits)
FracUnits_none(fs) == 0
FracUnits(fs) ==
    LET d(k) == IF k <= Len(fs) THEN DigitVal(fs[k]) ELSE 0
    IN  1000 * d(1) + 100 * d(2) + 10 * d(3) + d(4)

\* parse_cond(line_bytes)
parse_cond(line_bytes) ==
    LET decoded == [i \in 1..Len(line_bytes) |->
                        IF IsAscii(line_bytes[i]) THEN line_bytes[i] ELSE "REPL"]
        s0 == StripSet(decoded, {"CR", "LF"})
        s1 == IF s0 # <<>> /\ s0[1] = "STX" THEN Tail(s0) ELSE s0
        neg == s1 # <<>> /\ s1[1] = "-"
        sign == IF neg THEN -1 ELSE 1
        s == IF neg THEN Tail(s1) ELSE s1
        d == FirstDigit(s)
        \* re.search(r'(-?\d+(\.\d+)?)', s): leftmost match, greedy
        own == IF d > 1 /\ s[d - 1] = "-" THEN -1 ELSE 1
        e == RunEnd(s, d)
        hasFrac == e + 2 <= Len(s) /\ s[e + 1] = "." /\ s[e + 2] \in Digits
        f == IF hasFrac THEN RunEnd(s, e + 2) ELSE e
        mag == IntOf(SubSeq(s, d, e)) * Scale
                 + (IF hasFrac THEN FracUnits(SubSeq(s, e + 2, f)) ELSE 0)
        m2 == FirstOf(s, {"K", "L", "k", "l"})
        m3 == FirstOf(s, {"G", "N", "g", "n"})
    IN  [isNone |-> FALSE,
         peso_none |-> (d = 0),
         peso_val |-> IF d = 0 THEN 0 ELSE own * mag * sign,
         unidad |-> Upper(m2),
         tipo |-> Upper(m3),
         payload |-> s]

\* f"{peso:.2f}": the weight rounded to hundredths of a kg (ties to even)
Fmt2(p) ==
    LET a == IF p < 0 THEN -p ELSE p
        q == a \div 100
        r == a % 100
        up == r > 50 \/ (r = 50 /\ q % 2 = 1)
        v == IF up THEN q + 1 ELSE q
    IN  IF p < 0 THEN -v ELSE v

-----------------------------------------------------------------------------
(* The ledger: catalogs, weigh records, CONFIG_FILE and PASSWORD_FILE.     *)
(* Python counts list positions from 0, the model from 1: index k of the   *)
(* model is index k - 1 of the source.                                     *)

\* n hundredths of a kg
Centi(n) == n * (Scale \div 100)

PRODUCT_TO_WEIGHT ==
    "CREMOSO LAS TRES ESTRELLAS" :> Centi(35) @@
    "CREMOSO SABORLAC" :> Centi(35) @@
    "CREMOSO MEDIA HORMA" :> Centi(35) @@
    "POR SALUT LAS TRES ESTRELLAS" :> Centi(35) @@
    "P.SALUT CON CHIA Y LINO" :> Centi(40) @@
    "PROQUESO-FIT" :> Centi(40) @@
    "TYBO LAS TRES" :> Centi(40) @@
    "MUZZARELLA SABORLAC" :> Centi(40) @@
    "MUZZARELLA LAS TRES ESTRELLAS" :> Centi(40) @@
    "MOZZARELLA BLOCK" :> Centi(40) @@
    "PATEGRAS SABORLAC" :> Centi(35) @@
    "AZUL LAS TRES ESTRELLAS" :> Centi(28) @@
    "CHEDDAR" :> Centi(40) @@
    "GRUYERITO EN CUNA" :> Centi(55) @@
    "ROMANITO" :> Centi(30) @@
    "SARDO LAS TRES ESTRELLAS" :> Centi(30) @@
    "SARDO SABORLAC" :> Centi(30) @@
    "REGGIANITO HORMA" :> Centi(35) @@
    "REGGIANITO BLOCK" :> Centi(40) @@
    "PROVOLONE HILADO" :> Centi(35) @@
    "PROVOLONE HILADO EN FETAS" :> Centi(35) @@
    "RICOTTA EN HORMA" :> Centi(35) @@
    "RICOTTA CABRAL" :> Centi(38) @@
    "SARDO SABORLAC BLOCK" :> Centi(40)

TRAY_WEIGHTS ==
    "Bandeja de Cremoso" :> Centi(170) @@
    "Bandeja de Barra" :> Centi(140) @@
    "Bandeja de Sardo" :> Centi(200) @@
    "Sin Bandeja" :> Centi(0)

\* round(x, 3) on a weight in 1/Scale units.  A decimal tie goes to the even
\* neighbour; the weights of the model stay clear of ties, where the outcome
\* of the float round depends on the binary value.
Round3(x) ==
    LET m == Scale \div (10 ^ 3)
        q == x \div m
        r == x % m
    IN  IF 2 * r < m THEN q * m
        ELSE IF 2 * r > m THEN (q + 1) * m
        ELSE IF q % 2 = 0 THEN q * m ELSE (q + 1) * m

\* bruto - pallet - peso_cajas - peso_bandejas for the fields of a form
peso_neto(form, bruto) ==
    LET peso_cajas == form.cajas * PRODUCT_TO_WEIGHT[form.producto]
        peso_bandejas == form.cant_bandeja * TRAY_WEIGHTS[form.bandeja]
    IN  bruto - form.pallet - peso_cajas - peso_bandejas

\* the dict of a weigh record
Entry(form, bruto, neto, timestamp) ==
    [producto |-> form.producto, cajas |-> form.cajas,
     bandeja |-> form.bandeja, cant_bandeja |-> form.cant_bandeja,
     pallet |-> form.pallet, bruto |-> bruto, neto |-> neto,
     lote |-> form.lote, hormas |-> form.hormas, timestamp |-> timestamp]

RECURSIVE SumNeto(_)
\* df['neto'].sum() and sum(r['neto'] for r in records)
SumNeto(records) ==
    IF records = <<>> THEN 0
    ELSE records[1].neto + SumNeto(Tail(records))

\* a file of the working directory: absent, not parseable as JSON, or a dict
Missing == [kind |-> "nofile", data |-> [k \in {} |-> 0]]
Garbled == [kind |-> "corrupt", data |-> [k \in {} |-> 0]]
Stored(data) == [kind |-> "json", data |-> data]

\* data.get(key, default)
Get(data, key, default) == IF key \in DOMAIN data THEN data[key] ELSE default

\* load_password()
load_password_no_default(f) == Get(f.data, "password", "")
load_password(f) ==
    IF f.kind = "json" THEN Get(f.data, "password", "admin123") ELSE "admin123"

\* datetime.now().strftime("%Y-%m-%d %H:%M:%S"): no statement reads a
\* timestamp back, so the model keeps only that the record carries one
Stamp(day) == "fecha y hora"

\* load_config's loop body: the keys an entry of an older file lacks
WithDefaults(entry) ==
    [k \in DOMAIN entry \cup {"timestamp", "lote", "hormas"} |->
        IF k \in DOMAIN entry THEN entry[k]
        ELSE IF k = "timestamp" THEN "Sin fecha"
        ELSE IF k = "lote" THEN ""
        ELSE 0]

\* load_config() on the session state st.  A file that does not parse ends
\* in the except branch, which shows st.error and assigns nothing.
load_config(f, st) ==
    IF f.kind = "nofile" THEN st
    ELSE IF f.kind = "corrupt" THEN st
    ELSE LET history == Get(f.data, "current_history", <<>>)
             expeditions == Get(f.data, "expeditions", <<>>)
         IN  [st EXCEPT
                !.history_list =
                    [k \in 1..Len(history) |-> WithDefaults(history[k])],
                !.expeditions =
                    [i \in 1..Len(expeditions) |->
                        [expeditions[i] EXCEPT !.records =
                            [k \in 1..Len(@) |-> WithDefaults(@[k])]]],
                !.last_product = Get(f.data, "last_product", "")]

\* the dict save_config() dumps to CONFIG_FILE
save_config(st) ==
    Stored([current_history |-> st.history_list,
            expeditions |-> st.expeditions,
            last_product |-> st.last_product])

\* 0 <= index < len(lista)
InRange(lista, index) == index \in 1..Len(lista)

\* editar_registro(lista, index, nuevo_registro): the list it leaves;
\* whether it went into the branch that calls save_config() and ends in
\* st.rerun(); and what it tells its caller and the user (the st.success
\* message; it returns None and raises nothing on either path)
editar_registro(lista, index, nuevo_registro) ==
    IF InRange(lista, index)
    THEN [lista |-> [lista EXCEPT ![index] = nuevo_registro], done |-> TRUE,
          shown |-> "Registro actualizado correctamente"]
    ELSE [lista |-> lista, done |-> FALSE, shown |-> ""]

\* eliminar_registro(lista, index)
eliminar_registro(lista, index) ==
    IF InRange(lista, index)
    THEN [lista |-> SubSeq(lista, 1, index - 1)
                      \o SubSeq(lista, index + 1, Len(lista)),
          done |-> TRUE, shown |-> "Registro eliminado: {producto} - {neto}"]
    ELSE [lista |-> lista, done |-> FALSE, shown |-> ""]

\* the Guardar Cambios branch of mostrar_formulario_edicion, with the Peso
\* Bruto field left at its value, the stored gross of registro_original
mostrar_formulario_edicion(st, registro_original, index, es_historial, exp_index, form) ==
    LET bruto == registro_original.bruto
        neto == peso_neto(form, bruto)
        nuevo == Entry(form, Round3(bruto), Round3(neto),
                       registro_original.timestamp)
        lista == IF es_historial THEN st.history_list
                 ELSE st.expeditions[exp_index].records
        r == editar_registro(lista, index, nuevo)
    IN  [st |-> IF es_historial THEN [st EXCEPT !.history_list = r.lista]
                ELSE [st EXCEPT !.expeditions[exp_index].records = r.lista],
         done |-> r.done, shown |-> r.shown]

RECURSIVE sorted_desc(_)
\* sorted(filtered_exp, key=lambda x: x['date'], reverse=True): stable, so
\* an expedition goes behind those of its date that precede it in the list
sorted_desc(es) ==
    IF es = <<>> THEN <<>>
    ELSE LET rest == sorted_desc(SubSeq(es, 1, Len(es) - 1))
             e == es[Len(es)]
             n == Cardinality({k \in 1..Len(rest) : rest[k].date >= e.date})
         IN  SubSeq(rest, 1, n) \o <<e>> \o SubSeq(rest, n + 1, Len(rest))

\* the list tab3 renders.  A filter is the empty text (0 for the date) or a
\* whole date or product name; dates are days of one month, whose "%d/%m/%y"
\* texts order as the days do.
filtered_exp(expeditions, filter_date, filter_prod) ==
    LET keep(e) ==
            /\ filter_date = 0 \/ e.date = filter_date
            /\ \/ filter_prod = ""
               \/ \E k \in 1..Len(e.records) :
                    e.records[k].producto = filter_prod
    IN  sorted_desc(SelectSeq(expeditions, keep))

\* lista.copy()
copy_reversed(lista) == [k \in 1..Len(lista) |-> lista[Len(lista) + 1 - k]]
copy(lista) == lista

\* lista.remove(x): drop the first element equal to x
remove(lista, x) ==
    LET k == CHOOSE k \in 1..Len(lista) :
                lista[k] = x /\ \A j \in 1..(k - 1) : lista[j] # x
    IN  SubSeq(lista, 1, k - 1) \o SubSeq(lista, k + 1, Len(lista))

-----------------------------------------------------------------------------
(* State shared by the specifications *)

Sessions == {"s1", "s2"}

\* the sessions whose user can type the server password
Operators == {"s1"}

\* st.session_state of a fresh session, and the snapshot of its last script run
InitSession ==
    [is_server |-> FALSE, authenticated |-> FALSE,
     current_peso |-> 0, is_reading |-> FALSE, status_text |-> Status("", 0)]

\* a session with no reading_thread (st.session_state.reading_thread = None)
NoThread ==
    [pc |-> "none",         \* position in continuous_reading
     formato |-> "el05",    \* its formato argument
     ser |-> FALSE,         \* ser is an open serial.Serial
     flag |-> TRUE,         \* realtime['reading'] of its last check
     doc |-> NullDoc,       \* the dict of the write_realtime_data in progress
     next |-> "none",       \* where it continues after that write
     kind |-> "none",       \* which statement of the thread issued that write
     frame |-> "none",      \* outcome of its last frame read
     exit |-> "none",       \* why it left the try block
     left |-> NullDoc,      \* what a reader saw right after its last write
     overlaid |-> FALSE]    \* that write landed on another writer's text

NoHandler == [pc |-> "idle", doc |-> NullDoc]

InitLog ==
    [performed |-> {},          \* documents whose json.dump has run (SpecStore)
     latest |-> NullDoc,        \* document of the last write no other write overlapped
     writers |-> {},            \* who has opened the file for writing
     published |-> NullDoc,     \* last document a loop wrote
     publisher |-> "none",      \* the branch of the loop that wrote it
     stopped |-> FALSE]         \* a Stop has been written and no Start since

\* the ledger part of st.session_state of a fresh session
InitSessionLedger ==
    [history_list |-> <<>>, expeditions |-> <<>>, last_product |-> "",
     config_loaded |-> FALSE, password |-> "admin123"]

\* no ledger file, no session has run: the ledger as SpecStore and SpecAcq,
\* which never touch it, carry it
LedgerUnused ==
    /\ led = [s \in Sessions |-> InitSessionLedger]
    /\ cfg = [config |-> Missing, password |-> Missing]
    /\ today = 1
    /\ arch = 0

\* the parser bench with no frame received: port is the formato the loop
\* was started with, formato the parser the frame was given to, out what
\* that parser returned
NoParse ==
    [frame |-> <<>>, formato |-> "none", port |-> "none",
     out |-> [isNone |-> TRUE, peso_none |-> TRUE, peso_val |-> 0,
              digits |-> <<>>, raw_value |-> 0]]

-----------------------------------------------------------------------------
(* SpecStore: write_realtime_data and read_realtime_data under arbitrary   *)
(* callers (two writers, two readers, inputs drawn from small sets).       *)

Writers == {"w1", "w2"}
Readers == {"r1"}

StoreWeights == {0, 123400}                       \* 0.0 kg, 12.34 kg
StoreStatus == {Status("Leyendo", 0), Status("Detenido", 0)}

IdleWriter == [pc |-> "idle", doc |-> NullDoc, clean |-> FALSE]
NoRead == [val |-> NullDoc, src |-> "none", had |-> FALSE, genuine |-> FALSE,
           expect |-> NullDoc]

InitStore ==
    /\ file \in {NoFile, Corrupt}
    /\ clock = 0
    /\ simulate = TRUE
    /\ sess = [s \in Sessions |-> InitSession]
    /\ hnd = [s \in Sessions |-> NoHandler]
    /\ th = [s \in Sessions |-> NoThread]
    /\ log = InitLog
    /\ wr = [w \in Writers |-> IdleWriter]
    /\ rd = [r \in Readers |-> NoRead]
    /\ LedgerUnused
    /\ px = NoParse

\* every writer between its open and its dump has now been overlapped
Overlapped(w) ==
    [x \in Writers |-> IF x = w THEN wr[x] ELSE [wr[x] EXCEPT !.clean = FALSE]]

\* write_realtime_data(peso, reading, status) up to and including open(.., 'w')
WriteBegin(w, peso, reading, status) ==
    /\ wr[w].pc = "idle"
    /\ clock < MaxClock
    /\ file' = write_open(file)
    /\ clock' = Tick(clock)
    /\ wr' = [Overlapped(w) EXCEPT
                ![w] = [pc |-> "opened", doc |-> Doc(peso, reading, clock, status),
                        clean |-> TRUE]]
    /\ log' = [log EXCEPT !.latest = NullDoc]
    /\ UNCHANGED <<ledgerVars, px, simulate, sess, hnd, th, rd>>

\* json.dump(data, f) and the close of the with block
WriteEnd(w) ==
    /\ wr[w].pc = "opened"
    /\ \E f2 \in write_dump(file, wr[w].doc) : file' = f2
    /\ wr' = [Overlapped(w) EXCEPT ![w] = IdleWriter]
    /\ log' = [log EXCEPT !.performed = @ \cup {wr[w].doc},
                          !.latest = IF wr[w].clean THEN wr[w].doc ELSE NullDoc]
    /\ UNCHANGED <<ledgerVars, px, clock, simulate, sess, hnd, th, rd>>

\* one call of read_realtime_data()
Read(r) ==
    /\ rd' = [rd EXCEPT ![r] =
                [val |-> read_realtime_data(file, clock),
                 src |-> file.kind,
                 had |-> log.performed # {},
                 genuine |-> Triple(read_realtime_data(file, clock))
                                \in {Triple(d) : d \in log.performed},
                 expect |-> log.latest]]
    /\ file' = read_leaves(file, clock)
    /\ UNCHANGED <<ledgerVars, px, clock, simulate, sess, hnd, th, log, wr>>

NextStore ==
    \/ \E w \in Writers, p \in StoreWeights, a \in BOOLEAN, st \in StoreStatus :
            WriteBegin(w, p, a, st)
    \/ \E w \in Writers : WriteEnd(w)
    \/ \E r \in Readers : Read(r)

SpecStore == InitStore /\ [][NextStore]_vars

-----------------------------------------------------------------------------
(* SpecAcq: the sidebar handlers of each session and its reading thread   *)

SimWeights == {500000, 2752500}        \* round(random.uniform(50.0, 500.0), 2)

\* frames ser.read_until(b'\r') returns: a weight, no digits, a read timeout
EL05Frames ==
    { <<"M", "0", "0", "0", "0", "1", "0", "CR">>, <<"M", "CR">>, <<>> }

\* frames ser.read_until(b'\n') returns: a weight, no numeric token
CondFrames ==
    { <<"-", "0", "1", "2", ".", "5", "0", "K", "G", "CR", "LF">>,
      <<"STX", "K", "G", "CR", "LF">> }

Frames(formato) == IF formato = "el05" THEN EL05Frames ELSE CondFrames

StLeyendo(p) == Status("Leyendo: {peso:.2f} kg", Fmt2(p))
StEsperando == Status("Esperando datos validos", 0)
StInvalido == Status("Dato invalido", 0)
StSim == Status("Leyendo (Simulacion)", 0)
StConectado == Status("Conectado a {port}", 0)
StErrorPuerto == Status("Error puerto: {e}", 0)
StErrorConexion == Status("Error conexion: {e}", 0)
StError == Status("Error: {e}", 0)
StDesconectado == Status("Desconectado", 0)
StIniciando == Status("Iniciando...", 0)
StDetenido == Status("Detenido", 0)
StSesionCerrada == Status("Detenido (Sesion cerrada)", 0)

\* the arguments of the write_realtime_data call that follows a frame
frame_result_stops(formato, raw) ==
    LET parsed == IF formato = "el05" THEN parse_el05_corregido(raw)
                  ELSE parse_cond(raw)
    IN  IF ~parsed.isNone /\ ~parsed.peso_none
        THEN <<parsed.peso_val, TRUE, StLeyendo(parsed.peso_val)>>
        ELSE <<0, FALSE, StDetenido>>
frame_result(formato, raw) ==
    LET parsed == IF formato = "el05" THEN parse_el05_corregido(raw)
                  ELSE parse_cond(raw)
    IN  IF ~parsed.isNone /\ ~parsed.peso_none
        THEN <<parsed.peso_val, TRUE, StLeyendo(parsed.peso_val)>>
        ELSE IF formato = "el05" THEN <<0, TRUE, StEsperando>>
        ELSE <<0, TRUE, StInvalido>>

\* the frame could be decoded
Decodes(formato, raw) ==
    LET parsed == IF formato = "el05" THEN parse_el05_corregido(raw)
                  ELSE parse_cond(raw)
    IN  ~parsed.isNone /\ ~parsed.peso_none

\* the sidebar shows the server controls
ServerControls_always(s) == TRUE
ServerControls(s) == sess[s].is_server /\ sess[s].authenticated

\* who is writing, for the log: a session is tagged by what it holds
WriterTag(s) ==
    IF sess[s].is_server /\ sess[s].authenticated THEN "server" ELSE "client"

Alive(s) == th[s].pc \notin {"none", "done"}

\* SIMULATE is a local constant of continuous_reading, True in the source as
\* it stands ("cambia a True para probar sin balanza real"); the real-device
\* branch is what runs with the switch set to False, so both are started from.
InitAcq ==
    /\ file \in {NoFile, Corrupt}
    /\ clock = 0
    /\ simulate \in BOOLEAN
    /\ sess = [s \in Sessions |-> InitSession]
    /\ hnd = [s \in Sessions |-> NoHandler]
    /\ th = [s \in Sessions |-> NoThread]
    /\ log = InitLog
    /\ wr = [w \in Writers |-> IdleWriter]
    /\ rd = [r \in Readers |-> NoRead]
    /\ LedgerUnused
    /\ px = NoParse

(* ---- the thread: continuous_reading ---- *)

\* the thread calls write_realtime_data(a[1], a[2], a[3]) and goes on at nx
LoopWrite(s, a, nx, kind, t2) ==
    /\ file' = write_open(file)
    /\ clock' = Tick(clock)
    /\ th' = [th EXCEPT ![s] =
                [t2 EXCEPT !.pc = "wdata", !.next = nx, !.kind = kind,
                           !.doc = Doc(a[1], a[2], clock, a[3])]]
    /\ log' = [log EXCEPT !.writers = @ \cup {"loop"}]

\* json.dump of the thread's pending write
LoopDump_unwritten(s) ==
    /\ th[s].pc = "wdata"
    /\ th' = [th EXCEPT ![s] = [@ EXCEPT !.pc = th[s].next, !.next = "none"]]
    /\ UNCHANGED <<ledgerVars, px, file, clock, simulate, sess, hnd, log, wr, rd>>
LoopDump(s) ==
    /\ th[s].pc = "wdata"
    /\ \E f2 \in write_dump(file, th[s].doc) :
        /\ file' = f2
        /\ th' = [th EXCEPT ![s] =
                    [@ EXCEPT !.pc = th[s].next, !.next = "none",
                              !.left = read_realtime_data(f2, clock),
                              !.overlaid = (file.kind # "empty")]]
    /\ log' = [log EXCEPT !.published = th[s].doc, !.publisher = th[s].kind]
    /\ UNCHANGED <<ledgerVars, px, clock, simulate, sess, hnd, wr, rd>>

\* thread entry: the SIMULATE branch
LoopBegin(s) ==
    /\ th[s].pc = "start"
    /\ th' = [th EXCEPT ![s].pc = IF simulate THEN "simCheck" ELSE "open"]
    /\ UNCHANGED <<ledgerVars, px, file, clock, simulate, sess, hnd, log, wr, rd>>

\* simulation: read the flag; not reading -> sleep and continue
SimCheck(s) ==
    /\ th[s].pc = "simCheck"
    /\ LET realtime == read_realtime_data(file, clock)
       IN  th' = [th EXCEPT ![s].flag = realtime.reading,
                            ![s].pc = IF realtime.reading THEN "simGen"
                                      ELSE "simCheck"]
    /\ UNCHANGED <<ledgerVars, px, file, clock, simulate, sess, hnd, log, wr, rd>>

\* simulation: peso = round(random.uniform(..), 2); write it
SimPublish(s) ==
    /\ th[s].pc = "simGen"
    /\ \E peso \in SimWeights :
        LoopWrite(s, <<peso, FALSE, StSim>>, "simCheck", "sim", th[s])
    /\ UNCHANGED <<ledgerVars, px, simulate, sess, hnd, wr, rd>>

\* serial.Serial(...) succeeds; after the settling sleep the thread writes
OpenOk(s) ==
    /\ th[s].pc = "open"
    /\ th' = [th EXCEPT ![s].ser = TRUE, ![s].pc = "connected"]
    /\ UNCHANGED <<ledgerVars, px, file, clock, simulate, sess, hnd, log, wr, rd>>

Connected(s) ==
    /\ th[s].pc = "connected"
    /\ LoopWrite(s, <<0, TRUE, StConectado>>, "check", "connect", th[s])
    /\ UNCHANGED <<ledgerVars, px, simulate, sess, hnd, wr, rd>>

\* serial.Serial(...) raises SerialException: the outer except writes
OpenFails(s) ==
    /\ th[s].pc = "open"
    /\ LoopWrite(s, <<0, FALSE, StErrorConexion>>, "finally", "openfail",
                 [th[s] EXCEPT !.exit = "openfail"])
    /\ UNCHANGED <<ledgerVars, px, simulate, sess, hnd, wr, rd>>

\* top of the while loop: read the flag
Check(s) ==
    /\ th[s].pc = "check"
    /\ LET realtime == read_realtime_data(file, clock)
       IN  th' = [th EXCEPT ![s].flag = realtime.reading,
                            ![s].pc = IF realtime.reading THEN "read" ELSE "idle"]
    /\ UNCHANGED <<ledgerVars, px, file, clock, simulate, sess, hnd, log, wr, rd>>

\* not reading: time.sleep(0.5); continue
IdleSleep_reads(s) ==
    /\ th[s].pc = "idle"
    /\ th' = [th EXCEPT ![s].pc = "read"]
    /\ UNCHANGED <<ledgerVars, px, file, clock, simulate, sess, hnd, log, wr, rd>>
IdleSleep(s) ==
    /\ th[s].pc = "idle"
    /\ th' = [th EXCEPT ![s].pc = "check"]
    /\ UNCHANGED <<ledgerVars, px, file, clock, simulate, sess, hnd, log, wr, rd>>

\* ser.read_until returns a frame; it is parsed and the result written
ReadFrame(s) ==
    /\ th[s].pc = "read"
    /\ \E raw \in Frames(th[s].formato) :
        LoopWrite(s, frame_result(th[s].formato, raw), "check", "frame",
                  [th[s] EXCEPT !.frame = IF Decodes(th[s].formato, raw)
                                          THEN "ok" ELSE "undecodable"])
    /\ UNCHANGED <<ledgerVars, px, simulate, sess, hnd, wr, rd>>

\* ser.read_until raises SerialException: write, break
ReadSerialError(s) ==
    /\ th[s].pc = "read"
    /\ LoopWrite(s, <<0, FALSE, StErrorPuerto>>, "finally", "ioerr",
                 [th[s] EXCEPT !.frame = "ioerror", !.exit = "ioerr"])
    /\ UNCHANGED <<ledgerVars, px, simulate, sess, hnd, wr, rd>>

\* any other exception in the cycle: write, sleep, go round again
ReadOtherError(s) ==
    /\ th[s].pc = "read"
    /\ LoopWrite(s, <<0, TRUE, StError>>, "check", "error",
                 [th[s] EXCEPT !.frame = "error"])
    /\ UNCHANGED <<ledgerVars, px, simulate, sess, hnd, wr, rd>>

Finally_port_left_open(s) ==
    /\ th[s].pc = "finally"
    /\ LoopWrite(s, <<0, FALSE, StDesconectado>>, "return", "finally", th[s])
    /\ UNCHANGED <<ledgerVars, px, simulate, sess, hnd, wr, rd>>

\* finally: close the port if it is open, write "Desconectado"
Finally(s) ==
    /\ th[s].pc = "finally"
    /\ LoopWrite(s, <<0, FALSE, StDesconectado>>, "return", "finally",
                 [th[s] EXCEPT !.ser = FALSE])
    /\ UNCHANGED <<ledgerVars, px, simulate, sess, hnd, wr, rd>>

\* continuous_reading returns after its last write and the thread ends:
\* from here on reading_thread.is_alive() is False
ThreadExit(s) ==
    /\ th[s].pc = "return"
    /\ th' = [th EXCEPT ![s].pc = "done"]
    /\ UNCHANGED <<ledgerVars, px, file, clock, simulate, sess, hnd, log, wr, rd>>

(* ---- the script run of a session and its sidebar handlers ---- *)

\* realtime_data = read_realtime_data() at the top of every script run
Snapshot(s) ==
    LET realtime_data == read_realtime_data(file, clock)
    IN  [sess[s] EXCEPT !.current_peso = realtime_data.peso,
                        !.is_reading = realtime_data.reading,
                        !.status_text = realtime_data.status]

\* a script run with no button pressed (the one-second auto refresh)
Refresh(s) ==
    /\ hnd[s].pc = "idle"
    /\ sess' = [sess EXCEPT ![s] = Snapshot(s)]
    /\ UNCHANGED <<ledgerVars, px, file, clock, simulate, hnd, th, log, wr, rd>>

\* the mode radio, shown while the session is not an authenticated server
SelectMode(s, server) ==
    /\ hnd[s].pc = "idle"
    /\ ~(sess[s].is_server /\ sess[s].authenticated)
    /\ sess' = [sess EXCEPT ![s] = [Snapshot(s) EXCEPT !.is_server = server]]
    /\ UNCHANGED <<ledgerVars, px, file, clock, simulate, hnd, th, log, wr, rd>>

\* the Autenticar button: ok is password_input == st.session_state.password
Authenticate(s, ok) ==
    /\ ok => s \in Operators
    /\ hnd[s].pc = "idle"
    /\ sess[s].is_server /\ ~sess[s].authenticated
    /\ sess' = [sess EXCEPT ![s] =
                  IF ok THEN [Snapshot(s) EXCEPT !.authenticated = TRUE]
                  ELSE [Snapshot(s) EXCEPT !.is_server = FALSE]]
    /\ UNCHANGED <<ledgerVars, px, file, clock, simulate, hnd, th, log, wr, rd>>

\* a handler calls write_realtime_data(a[1], a[2], a[3]) and goes on at pc
HandlerWrite(s, a, pc, s2) ==
    /\ file' = write_open(file)
    /\ clock' = Tick(clock)
    /\ sess' = [sess EXCEPT ![s] = s2]
    /\ hnd' = [hnd EXCEPT ![s] = [pc |-> pc, doc |-> Doc(a[1], a[2], clock, a[3])]]

\* a loop of some session has the device open and is in its read cycle
SomeAcquiring ==
    \E x \in Sessions :
        /\ th[x].ser /\ th[x].exit = "none"
        /\ \/ th[x].pc \in {"check", "idle", "read"}
           \/ th[x].pc = "wdata" /\ th[x].kind \in {"frame", "error"}

\* the Iniciar button (enabled while the rendered page showed not reading)
Start(s) ==
    /\ hnd[s].pc = "idle"
    /\ ServerControls(s)
    /\ ~sess[s].is_reading
    /\ HandlerWrite(s, <<0, TRUE, StIniciando>>, "startW", Snapshot(s))
    /\ log' = [log EXCEPT !.writers = @ \cup {WriterTag(s)}, !.stopped = FALSE]
    /\ UNCHANGED <<ledgerVars, px, simulate, th, wr, rd>>

\* the Detener button (enabled while the rendered page showed reading).  The
\* handler position "stopAcqW" is "stopW" pressed while a loop was in its read
\* cycle; the two differ only in what the log records when the write lands.
Stop(s) ==
    /\ hnd[s].pc = "idle"
    /\ ServerControls(s)
    /\ sess[s].is_reading
    /\ HandlerWrite(s, <<0, FALSE, StDetenido>>,
                    IF SomeAcquiring THEN "stopAcqW" ELSE "stopW", Snapshot(s))
    /\ log' = [log EXCEPT !.writers = @ \cup {WriterTag(s)}]
    /\ UNCHANGED <<ledgerVars, px, simulate, th, wr, rd>>

\* the Cerrar Sesion Servidor button
Logout(s) ==
    /\ hnd[s].pc = "idle"
    /\ ServerControls(s)
    /\ HandlerWrite(s, <<0, FALSE, StSesionCerrada>>, "logoutW",
                    [Snapshot(s) EXCEPT !.authenticated = FALSE,
                                        !.is_server = FALSE])
    /\ log' = [log EXCEPT !.writers = @ \cup {WriterTag(s)}]
    /\ UNCHANGED <<ledgerVars, px, simulate, th, wr, rd>>

\* json.dump of the handler's pending write
HandlerDump(s) ==
    /\ hnd[s].pc \in {"startW", "stopW", "stopAcqW", "logoutW"}
    /\ \E f2 \in write_dump(file, hnd[s].doc) : file' = f2
    /\ hnd' = [hnd EXCEPT ![s] =
                 [pc |-> IF hnd[s].pc = "startW" THEN "startT" ELSE "idle",
                  doc |-> NullDoc]]
    /\ log' = [log EXCEPT !.stopped = IF hnd[s].pc = "stopAcqW" THEN TRUE ELSE @]
    /\ UNCHANGED <<ledgerVars, px, clock, simulate, sess, th, wr, rd>>

\* Iniciar, after its write: start a thread unless the session's is alive
StartThread_always(s) ==
    /\ hnd[s].pc = "startT"
    /\ \E formato \in {"el05", "cond"} :
        th' = [th EXCEPT ![s] =
                 [NoThread EXCEPT !.pc = "start", !.formato = formato]]
    /\ hnd' = [hnd EXCEPT ![s] = NoHandler]
    /\ UNCHANGED <<ledgerVars, px, file, clock, simulate, sess, log, wr, rd>>
StartThread(s) ==
    /\ hnd[s].pc = "startT"
    /\ \E formato \in {"el05", "cond"} :
        th' = [th EXCEPT ![s] =
                 IF Alive(s) THEN @
                 ELSE [NoThread EXCEPT !.pc = "start", !.formato = formato]]
    /\ hnd' = [hnd EXCEPT ![s] = NoHandler]
    /\ UNCHANGED <<ledgerVars, px, file, clock, simulate, sess, log, wr, rd>>

NextAcq ==
    \/ \E s \in Sessions : Refresh(s)
    \/ \E s \in Sessions, b \in BOOLEAN : SelectMode(s, b)
    \/ \E s \in Sessions, ok \in BOOLEAN : Authenticate(s, ok)
    \/ \E s \in Sessions : Start(s)
    \/ \E s \in Sessions : Stop(s)
    \/ \E s \in Sessions : Logout(s)
    \/ \E s \in Sessions : HandlerDump(s)
    \/ \E s \in Sessions : StartThread(s)
    \/ \E s \in Sessions : LoopBegin(s)
    \/ \E s \in Sessions : SimCheck(s)
    \/ \E s \in Sessions : SimPublish(s)
    \/ \E s \in Sessions : OpenOk(s)
    \/ \E s \in Sessions : Connected(s)
    \/ \E s \in Sessions : OpenFails(s)
    \/ \E s \in Sessions : Check(s)
    \/ \E s \in Sessions : IdleSleep(s)
    \/ \E s \in Sessions : ReadFrame(s)
    \/ \E s \in Sessions : ReadSerialError(s)
    \/ \E s \in Sessions : ReadOtherError(s)
    \/ \E s \in Sessions : Finally(s)
    \/ \E s \in Sessions : ThreadExit(s)
    \/ \E s \in Sessions : LoopDump(s)

SpecAcq == InitAcq /\ [][NextAcq]_vars

-----------------------------------------------------------------------------
(* SpecLedger: one session working on the ledger (tab1, tab2, tab3) while  *)
(* an acquisition loop of the real-device branch publishes readings.       *)

LedgerSessions == {"s1"}

\* 123.4567 kg, as a COND frame carries it
LedgerWeights == {1234567}

\* what the operator has put into the fields of tab1 or of the edit form:
\* one box, one tray and a pallet of 150.0004 kg, heavier than the reading
Forms ==
    {[producto |-> "CREMOSO SABORLAC", cajas |-> 1,
      bandeja |-> "Bandeja de Cremoso", cant_bandeja |-> 1,
      pallet |-> 150 * Scale + 4, lote |-> "L1", hormas |-> 200]}

\* a record as a file written before lote, hormas and timestamp existed has it
OldEntry ==
    [producto |-> "CHEDDAR", cajas |-> 0, bandeja |-> "Sin Bandeja",
     cant_bandeja |-> 0, pallet |-> 0, bruto |-> 50 * Scale,
     neto |-> 50 * Scale]

\* the working directory a session starts in
InitDisks ==
    {[config |-> Missing, password |-> Missing],
     [config |-> Garbled, password |-> Garbled],
     [config |-> Stored([current_history |-> <<OldEntry>>,
                         last_product |-> "CHEDDAR"]),
      password |-> Stored([password |-> "secret"])]}

TypedPasswords == {"admin123", "secret"}

InitLedger ==
    /\ file = NoFile
    /\ clock = 0
    /\ simulate = FALSE
    /\ sess = [s \in Sessions |-> InitSession]
    /\ hnd = [s \in Sessions |-> NoHandler]
    /\ th = [s \in Sessions |-> NoThread]
    /\ log = InitLog
    /\ wr = [w \in Writers |-> IdleWriter]
    /\ rd = [r \in Readers |-> NoRead]
    /\ led = [s \in Sessions |-> InitSessionLedger]
    /\ cfg \in InitDisks
    /\ today = 1
    /\ arch = 0
    /\ px = NoParse

\* what the ledger steps leave alone
deviceVars == <<file, clock, simulate, hnd, th, log, wr, rd, px>>

\* the records a session's ledger holds
Records(st) ==
    LET n[i \in 0..Len(st.expeditions)] ==
            IF i = 0 THEN 0 ELSE n[i - 1] + Len(st.expeditions[i].records)
    IN  Len(st.history_list) + n[Len(st.expeditions)]

\* the first script run of a session: load_config() and load_password()
FirstRun(s) ==
    /\ ~led[s].config_loaded
    /\ led' = [led EXCEPT ![s] =
                 [load_config(cfg.config, @) EXCEPT
                    !.config_loaded = TRUE,
                    !.password = load_password(cfg.password)]]
    /\ sess' = [sess EXCEPT ![s] = Snapshot(s)]
    /\ UNCHANGED <<cfg, today, arch, deviceVars>>

\* a later script run can start
Loaded(s) == led[s].config_loaded /\ hnd[s].pc = "idle"

\* the loop of some server publishes a frame's weight (one whole
\* write_realtime_data, no other writer in between)
ScaleWrites(w) ==
    /\ file' \in write_dump(write_open(file), Doc(w, TRUE, clock, StLeyendo(w)))
    /\ UNCHANGED <<ledgerVars, px, clock, simulate, sess, hnd, th, log, wr, rd>>

\* midnight
NextDay ==
    /\ today < MaxDay
    /\ today' = today + 1
    /\ arch' = 0
    /\ UNCHANGED <<led, cfg, sess, deviceVars>>

Rerun(s) == Loaded(s) /\ Refresh(s)

LedgerMode(s, server) == Loaded(s) /\ SelectMode(s, server)

Login(s, typed) == Loaded(s) /\ Authenticate(s, typed = led[s].password)

\* a handler leaves the session state st2 behind and has called save_config()
Saved(s, st2) ==
    /\ led' = [led EXCEPT ![s] = st2]
    /\ cfg' = [cfg EXCEPT !.config = save_config(st2)]

\* a handler leaves the session state st2 behind without saving
Unsaved(s, st2) ==
    /\ led' = [led EXCEPT ![s] = st2]
    /\ cfg' = cfg

\* the Guardar Registro button of tab1
Guardar_zero_allowed(s, form) ==
    /\ Loaded(s)
    /\ ServerControls(s)
    /\ Snapshot(s).current_peso >= 0 => Records(led[s]) < MaxRecords
    /\ LET peso_bruto == Snapshot(s).current_peso
           entry == Entry(form, peso_bruto, peso_neto(form, peso_bruto),
                          Stamp(today))
       IN  IF peso_bruto >= 0
           THEN Saved(s, [led[s] EXCEPT !.history_list = Append(@, entry),
                                        !.last_product = form.producto])
           ELSE Unsaved(s, led[s])
    /\ sess' = [sess EXCEPT ![s] = Snapshot(s)]
    /\ UNCHANGED <<today, arch, deviceVars>>
Guardar(s, form) ==
    /\ Loaded(s)
    /\ ServerControls(s)
    /\ Snapshot(s).current_peso > 0 => Records(led[s]) < MaxRecords
    /\ LET peso_bruto == Snapshot(s).current_peso
           entry == Entry(form, peso_bruto, peso_neto(form, peso_bruto),
                          Stamp(today))
       IN  IF peso_bruto > 0
           THEN Saved(s, [led[s] EXCEPT !.history_list = Append(@, entry),
                                        !.last_product = form.producto])
           ELSE Unsaved(s, led[s])
    /\ sess' = [sess EXCEPT ![s] = Snapshot(s)]
    /\ UNCHANGED <<today, arch, deviceVars>>

\* tab2 shows the action buttons
HistoryActions_unguarded(s) == Loaded(s) /\ led[s].history_list # <<>>
HistoryActions(s) ==
    /\ Loaded(s)
    /\ led[s].history_list # <<>>
    /\ ServerControls(s)

\* Editar on record idx of tab2, then Guardar Cambios on the form it opens
EditarHist(s, idx, form) ==
    /\ HistoryActions(s)
    /\ idx \in 1..Len(led[s].history_list)
    /\ LET r == mostrar_formulario_edicion(led[s], led[s].history_list[idx],
                                           idx, TRUE, 0, form)
       IN  IF r.done THEN Saved(s, r.st) ELSE Unsaved(s, r.st)
    /\ sess' = [sess EXCEPT ![s] = Snapshot(s)]
    /\ UNCHANGED <<today, arch, deviceVars>>

\* Borrar on record idx of tab2
BorrarHist(s, idx) ==
    /\ HistoryActions(s)
    /\ idx \in 1..Len(led[s].history_list)
    /\ LET r == eliminar_registro(led[s].history_list, idx)
           st2 == [led[s] EXCEPT !.history_list = r.lista]
       IN  IF r.done THEN Saved(s, st2) ELSE Unsaved(s, st2)
    /\ sess' = [sess EXCEPT ![s] = Snapshot(s)]
    /\ UNCHANGED <<today, arch, deviceVars>>

\* the Archivar -> Expedicion button is on the page
ArchivarRendered_always(s) == Loaded(s) /\ ServerControls(s)
ArchivarRendered(s) == HistoryActions(s)

\* the name f"{today} - Expedicion {next_num}"
ExpName(date, next_num) == <<date, next_num>>

\* the Archivar -> Expedicion button
Archivar(s) ==
    /\ ArchivarRendered(s)
    /\ Len(led[s].expeditions) < MaxExp
    /\ arch <= MaxExp
    /\ LET total_neto == SumNeto(led[s].history_list)
           today_expeditions ==
               SelectSeq(led[s].expeditions, LAMBDA e : e.date = today)
           next_num == Len(today_expeditions) + 1
           expedition == [date |-> today,
                          name |-> ExpName(today, next_num),
                          total |-> total_neto,
                          records |-> copy(led[s].history_list)]
       IN  Saved(s, [led[s] EXCEPT !.expeditions = Append(@, expedition),
                                   !.history_list = <<>>])
    /\ arch' = arch + 1
    /\ sess' = [sess EXCEPT ![s] = Snapshot(s)]
    /\ UNCHANGED <<today, deviceVars>>

\* the Limpiar Todo button
LimpiarTodo(s) ==
    /\ HistoryActions(s)
    /\ Saved(s, [led[s] EXCEPT !.history_list = <<>>])
    /\ sess' = [sess EXCEPT ![s] = Snapshot(s)]
    /\ UNCHANGED <<today, arch, deviceVars>>

\* tab3 shows, at position i of its list, an expedition with its buttons
ExpeditionActions(s, view, i) ==
    /\ Loaded(s)
    /\ ServerControls(s)
    /\ i \in 1..Len(view)
    /\ view[i].records # <<>>

\* the filter texts a user has in the two filter fields
DateFilters == 0..MaxDay
ProductFilters == {"", "CHEDDAR"}

\* Editar on record idx of the expedition shown at position i of tab3, then
\* Guardar Cambios on the form it opens
EditarExp(s, filter_date, filter_prod, i, idx, form) ==
    LET view == filtered_exp(led[s].expeditions, filter_date, filter_prod)
    IN  /\ ExpeditionActions(s, view, i)
        /\ idx \in 1..Len(view[i].records)
        /\ LET r == mostrar_formulario_edicion(led[s], view[i].records[idx],
                                               idx, FALSE, i, form)
           IN  IF r.done THEN Saved(s, r.st) ELSE Unsaved(s, r.st)
        /\ sess' = [sess EXCEPT ![s] = Snapshot(s)]
        /\ UNCHANGED <<today, arch, deviceVars>>

\* Borrar on record idx of the expedition shown at position i of tab3.  When
\* eliminar_registro removes the record it ends in st.rerun(), which leaves
\* the script: the statements after the call run only when it removed nothing.
BorrarExp(s, filter_date, filter_prod, i, idx) ==
    LET view == filtered_exp(led[s].expeditions, filter_date, filter_prod)
    IN  /\ ExpeditionActions(s, view, i)
        /\ idx \in 1..Len(view[i].records)
        /\ LET r == eliminar_registro(led[s].expeditions[i].records, idx)
           IN  IF r.done
               THEN Saved(s, [led[s] EXCEPT
                                !.expeditions[i].records = r.lista])
               ELSE Saved(s, [led[s] EXCEPT
                                !.expeditions[i].total =
                                    SumNeto(led[s].expeditions[i].records)])
        /\ sess' = [sess EXCEPT ![s] = Snapshot(s)]
        /\ UNCHANGED <<today, arch, deviceVars>>

\* Eliminar Expedicion Completa on the expedition shown at position i
EliminarExpedicion(s, filter_date, filter_prod, i) ==
    LET view == filtered_exp(led[s].expeditions, filter_date, filter_prod)
    IN  /\ ExpeditionActions(s, view, i)
        /\ Saved(s, [led[s] EXCEPT !.expeditions = remove(@, view[i])])
        /\ sess' = [sess EXCEPT ![s] = Snapshot(s)]
        /\ UNCHANGED <<today, arch, deviceVars>>

NextLedger ==
    \/ \E s \in LedgerSessions : FirstRun(s)
    \/ \E s \in LedgerSessions : Rerun(s)
    \/ \E s \in LedgerSessions, b \in BOOLEAN : LedgerMode(s, b)
    \/ \E s \in LedgerSessions, typed \in TypedPasswords : Login(s, typed)
    \/ \E w \in LedgerWeights : ScaleWrites(w)
    \/ NextDay
    \/ \E s \in LedgerSessions, form \in Forms : Guardar(s, form)
    \/ \E s \in LedgerSessions, idx \in 1..MaxRecords, form \in Forms :
            EditarHist(s, idx, form)
    \/ \E s \in LedgerSessions, idx \in 1..MaxRecords : BorrarHist(s, idx)
    \/ \E s \in LedgerSessions : Archivar(s)
    \/ \E s \in LedgerSessions : LimpiarTodo(s)
    \/ \E s \in LedgerSessions, fd \in DateFilters, fp \in ProductFilters,
          i \in 1..MaxExp, idx \in 1..MaxRecords, form \in Forms :
            EditarExp(s, fd, fp, i, idx, form)
    \/ \E s \in LedgerSessions, fd \in DateFilters, fp \in ProductFilters,
          i \in 1..MaxExp, idx \in 1..MaxRecords :
            BorrarExp(s, fd, fp, i, idx)
    \/ \E s \in LedgerSessions, fd \in DateFilters, fp \in ProductFilters,
          i \in 1..MaxExp :
            EliminarExpedicion(s, fd, fp, i)

SpecLedger == InitLedger /\ [][NextLedger]_vars

-----------------------------------------------------------------------------
(* SpecShared: two sessions, each of which can become an authenticated     *)
(* server, working on the one CONFIG_FILE.                                 *)

SharedSessions == {"s1", "s2"}

\* the form as the operator of session s fills it: the lot field is free
\* text, and each operator puts in a lot of their own
FormsOf(s) == {[form EXCEPT !.lote = s] : form \in Forms}

InitShared ==
    /\ file = NoFile
    /\ clock = 0
    /\ simulate = FALSE
    /\ sess = [s \in Sessions |-> InitSession]
    /\ hnd = [s \in Sessions |-> NoHandler]
    /\ th = [s \in Sessions |-> NoThread]
    /\ log = InitLog
    /\ wr = [w \in Writers |-> IdleWriter]
    /\ rd = [r \in Readers |-> NoRead]
    /\ LedgerUnused
    /\ px = NoParse

\* the Autenticar button of a session in server mode
Autenticar(s, password_input) ==
    /\ Loaded(s)
    /\ sess[s].is_server /\ ~sess[s].authenticated
    /\ sess' = [sess EXCEPT ![s] =
                  IF password_input = led[s].password
                  THEN [Snapshot(s) EXCEPT !.authenticated = TRUE]
                  ELSE [Snapshot(s) EXCEPT !.is_server = FALSE]]
    /\ UNCHANGED <<ledgerVars, deviceVars>>

\* a Detener of some server publishes weight 0 (one whole
\* write_realtime_data, no other writer in between)
ScaleStops ==
    /\ file' \in write_dump(write_open(file), Doc(0, FALSE, clock, StDetenido))
    /\ UNCHANGED <<ledgerVars, px, clock, simulate, sess, hnd, th, log, wr, rd>>

NextShared ==
    \/ \E s \in SharedSessions : FirstRun(s)
    \/ ScaleStops
    \/ \E s \in SharedSessions, b \in BOOLEAN : LedgerMode(s, b)
    \/ \E s \in SharedSessions, typed \in TypedPasswords : Autenticar(s, typed)
    \/ \E w \in LedgerWeights : ScaleWrites(w)
    \/ \E s \in SharedSessions : \E form \in FormsOf(s) : Guardar(s, form)
    \/ \E s \in SharedSessions, idx \in 1..MaxRecords :
            \E form \in FormsOf(s) : EditarHist(s, idx, form)
    \/ \E s \in SharedSessions, idx \in 1..MaxRecords : BorrarHist(s, idx)
    \/ \E s \in SharedSessions : Archivar(s)

SpecShared == InitShared /\ [][NextShared]_vars

-----------------------------------------------------------------------------
(* SpecParse: the bytes ser.read_until hands to a parser, byte by byte, and *)
(* the parser applied to them.                                              *)

\* the bytes a frame on the bench is made of
BenchBytes == {"M", "0", "1", "7", "CR", "A", "-", "x80"}

\* the bytes a COND frame on the bench is made of
CondBytes == {"-", "1", "7", ".", "K", "n", "A", "STX", "CR", "LF"}

\* the formato argument of continuous_reading
Formatos == {"el05", "cond"}

PortBytes(formato) == IF formato = "el05" THEN BenchBytes ELSE CondBytes

\* the bench of a loop started with formato, before a frame arrives
Bench(formato) == [NoParse EXCEPT !.port = formato]

InitParse ==
    /\ file = NoFile
    /\ clock = 0
    /\ simulate = FALSE
    /\ sess = [s \in Sessions |-> InitSession]
    /\ hnd = [s \in Sessions |-> NoHandler]
    /\ th = [s \in Sessions |-> NoThread]
    /\ log = InitLog
    /\ wr = [w \in Writers |-> IdleWriter]
    /\ rd = [r \in Readers |-> NoRead]
    /\ LedgerUnused
    /\ px \in {Bench(formato) : formato \in Formatos}

\* one more byte arrives on the port
Receive(c) ==
    /\ px.formato = "none"
    /\ c \in PortBytes(px.port)
    /\ Len(px.frame) < MaxFrame
    /\ px' = [px EXCEPT !.frame = Append(@, c)]
    /\ UNCHANGED <<ledgerVars, file, clock, simulate, sess, hnd, th, log, wr, rd>>

\* parsed = parse_el05_corregido(raw)
DecodeEL05 ==
    /\ px.formato = "none"
    /\ px.port = "el05"
    /\ px' = [px EXCEPT !.formato = "el05",
                        !.out = parse_el05_corregido(px.frame)]
    /\ UNCHANGED <<ledgerVars, file, clock, simulate, sess, hnd, th, log, wr, rd>>

\* the loop goes on to its next read
NextFrame ==
    /\ px.formato # "none"
    /\ px' = Bench(px.port)
    /\ UNCHANGED <<ledgerVars, file, clock, simulate, sess, hnd, th, log, wr, rd>>

\* parsed = parse_cond(raw)
DecodeCOND ==
    /\ px.formato = "none"
    /\ px.port = "cond"
    /\ px' = [px EXCEPT !.formato = "cond", !.out = parse_cond(px.frame)]
    /\ UNCHANGED <<ledgerVars, file, clock, simulate, sess, hnd, th, log, wr, rd>>

NextParse ==
    \/ \E c \in BenchBytes \cup CondBytes : Receive(c)
    \/ DecodeEL05
    \/ DecodeCOND
    \/ NextFrame

SpecParse == InitParse /\ [][NextParse]_vars

-----------------------------------------------------------------------------
(* Claims on the shared state store (SpecStore) *)

\* C3: under any interleaving of writes with concurrent reads, every value a
\* reader returns once the store holds a written state is the complete
\* document of one write that was actually performed.
C3_ReadsAreWrittenDocuments ==
    \A r \in Readers : rd[r].had => rd[r].genuine

\* C4: a read that follows a completed write, with no step of another write
\* since that write began, returns exactly the written weight, flag and status
\* (and time stamp), and the file holds that document: each write replaces
\* the whole state, whatever the store held before.
C4_ReadReturnsLastWrite ==
    /\ \A r \in Readers : rd[r].expect # NullDoc => rd[r].val = rd[r].expect
    /\ log.latest # NullDoc => read_realtime_data(file, clock) = log.latest

\* a read returned the document of a second write that replaced a first
C4_Witness ==
    \E r \in Readers :
        /\ rd[r].expect # NullDoc
        /\ rd[r].val = rd[r].expect
        /\ rd[r].val.last_update = 1
        /\ rd[r].val.reading

\* C10: read_realtime_data on a missing or unreadable document returns the
\* default state (weight 0, not acquiring, 'Detenido', stamped now) and leaves
\* the store as it was.
C10_ReadDefaults ==
    [][\A r \in Readers :
          Read(r) =>
            /\ file' = file
            /\ file.kind # "json" => rd'[r].val = DefaultState(clock)]_vars

\* reads have returned the default for a missing file and for unreadable text
C10_Witness ==
    \E r \in Readers :
        /\ rd[r].src \in {"nofile", "corrupt", "empty"}
        /\ rd[r].val = DefaultState(clock)
        /\ file.kind = rd[r].src

-----------------------------------------------------------------------------
(* Claims on the acquisition loop and the handlers (SpecAcq) *)

FrameStatusFmts == {StLeyendo(0).fmt, StEsperando.fmt, StInvalido.fmt}

\* C1: with a real device, once a Stop pressed while a loop was acquiring has
\* been written, and until the next Start, no frame result in the store says
\* is_acquiring = true.
C1_StopStaysStopped ==
    (~simulate /\ log.stopped /\ file.kind = "json"
        /\ file.doc.status.fmt \in FrameStatusFmts)
    => ~file.doc.reading

\* C2: with a real device, a loop that has seen the stop (flag read as false
\* after a Stop was written) has left its read cycle and released the device:
\* it is never back at the top of the cycle with the port still open.
C2_StopReleasesDevice ==
    \A s \in Sessions :
        (~simulate /\ log.stopped /\ th[s].pc = "check" /\ ~th[s].flag)
        => ~th[s].ser

C6_SimPublishesAcquiring ==
    log.publisher = "sim" => log.published.reading

\* C7: a frame that cannot be decoded does not stop the loop: the loop writes
\* weight 0, is_acquiring = true and an explanatory status, keeps the port
\* open, stays in the read cycle and goes on to the next frame.
C7_DecodeFailureContinues ==
    \A s \in Sessions :
        th[s].frame = "undecodable" =>
            /\ th[s].ser /\ th[s].exit = "none"
            /\ th[s].pc \in {"wdata", "check", "idle", "read"}
            /\ th[s].doc.peso = 0 /\ th[s].doc.reading
            /\ th[s].doc.status \in {StEsperando, StInvalido}
            /\ th[s].pc = "wdata" => th[s].next = "check"
            /\ th[s].pc # "wdata" =>
                    th[s].overlaid \/ Triple(th[s].left) = Triple(th[s].doc)

\* after an undecodable COND frame was published the loop is reading again
C7_Witness ==
    \E s \in Sessions :
        /\ th[s].frame = "undecodable" /\ th[s].pc = "read"
        /\ th[s].left.status = StInvalido
        /\ th[s].left.reading /\ th[s].left.peso = 0

C9_OpenFailureLeavesError ==
    \A s \in Sessions :
        (th[s].pc = "done" /\ th[s].exit = "openfail" /\ ~th[s].overlaid)
        => (~th[s].left.reading /\ th[s].left.status = StErrorConexion)


\* C24: the loop reads a frame, or draws a simulated reading, only straight
\* after a read of the store that said is_acquiring = true, and every such
\* read of the store serves one frame read only: after it the loop is in its
\* write and has to pass the top of the cycle again.
C24_FlagCheckedBeforeEveryRead ==
    [][\A s \in Sessions :
          /\ (th'[s].pc \in {"read", "simGen"} /\ th[s].pc # th'[s].pc)
                => /\ th[s].pc \in {"check", "simCheck"}
                   /\ read_realtime_data(file, clock).reading
                   /\ th'[s].flag
          /\ (th[s].pc \in {"read", "simGen"} /\ th'[s] # th[s])
                => th'[s].pc = "wdata"]_vars

\* a loop that has published a frame has found the flag set again and is
\* about to read the next frame
C24_Witness ==
    \E s \in Sessions :
        /\ th[s].pc = "read" /\ th[s].flag
        /\ th[s].frame \in {"ok", "undecodable"}
        /\ log.publisher = "frame"

\* C25: a read of a frame is followed by one write_realtime_data, begun in
\* the step that read the frame; the loop does nothing else until the text
\* of that write is in the file (the whole document, when no other writer
\* has written since the file was opened), goes on from there to the top of
\* the cycle, and writes nothing more before the next frame read.
C25_FrameResultWrittenBeforeNextRead ==
    [][\A s \in Sessions :
          /\ (th[s].pc = "read" /\ th'[s] # th[s])
                => /\ th'[s].pc = "wdata"
                   /\ file' = Empty
                   /\ th'[s].kind = "frame" => th'[s].next = "check"
          /\ (th[s].pc = "wdata" /\ th'[s] # th[s])
                => /\ file' \in {Json(th[s].doc), Corrupt}
                   /\ file.kind = "empty" => file' = Json(th[s].doc)
                   /\ th'[s].pc = th[s].next
          /\ (th[s].pc \in {"check", "idle"} /\ th'[s] # th[s])
                => file' = file]_vars

\* the result of one frame is in the store and the write of the next
\* frame's result has begun
C25_Witness ==
    \E s \in Sessions :
        /\ th[s].pc = "wdata" /\ th[s].kind = "frame" /\ th[s].frame = "ok"
        /\ log.publisher = "frame"
        /\ file = Empty

\* C26: with a real device, whenever no handler is at work and no thread
\* is alive, a store that holds a document does not say is_acquiring = true.
\* A loop that has made its last write is still alive until it returns, and
\* an Iniciar in between writes true and starts no thread.
C26_AcquiringImpliesLoop ==
    (/\ ~simulate
     /\ \A s \in Sessions : hnd[s].pc = "idle" /\ ~Alive(s)
     /\ file.kind = "json")
    => ~file.doc.reading

\* C27: the reading_thread of a session is replaced by a new thread only
\* when the session has none or the one it has is no longer alive, so a
\* session never has two threads alive.
C27_OneThreadPerSession ==
    [][\A s \in Sessions :
          (th'[s].pc = "start" /\ th[s].pc # "start")
            => th[s].pc \in {"none", "done"}]_vars

\* Iniciar has started a new thread in a session whose earlier thread ended
C27_Witness ==
    \E s \in Sessions :
        /\ th[s].pc = "start"
        /\ log.publisher = "finally"

-----------------------------------------------------------------------------
(* Claims on the ledger (SpecLedger) *)

\* the weigh records of a session's ledger, active and archived
AllRecords(st) ==
    {st.history_list[k] : k \in 1..Len(st.history_list)}
      \cup UNION {{st.expeditions[i].records[k] :
                      k \in 1..Len(st.expeditions[i].records)} :
                  i \in 1..Len(st.expeditions)}

\* C11: every weigh record of the active list and of every expedition has
\* net = gross - pallet tare - boxes * box weight - trays * tray weight on
\* the values the record stores, whatever was saved, edited, deleted or
\* archived before.  Guardar Cambios stores round(bruto, 3) next to the
\* round(.., 3) of a net computed from the bruto before rounding.
C11_NetIsGrossMinusTares ==
    \A s \in LedgerSessions : \A r \in AllRecords(led[s]) :
        r.neto = r.bruto - r.pallet
                   - r.cajas * PRODUCT_TO_WEIGHT[r.producto]
                   - r.cant_bandeja * TRAY_WEIGHTS[r.bandeja]

\* the expeditions of a list whose stored total is the sum of their nets
TotalsAgree(expeditions) ==
    \A i \in 1..Len(expeditions) :
        expeditions[i].total = SumNeto(expeditions[i].records)

\* C12: the total an expedition stores is the sum of the nets of the records
\* it holds, in the session and in CONFIG_FILE, after any edits and deletions
\* of its records.
C12_TotalIsSumOfNets ==
    \A s \in LedgerSessions :
        /\ led[s].config_loaded => TotalsAgree(led[s].expeditions)
        /\ cfg.config.kind = "json"
              => TotalsAgree(Get(cfg.config.data, "expeditions", <<>>))

\* C13: the Archivar step appends exactly one expedition, whose records are
\* the active records in their order and whose total is the sum of their
\* nets, empties the active list, leaves the expeditions there were as they
\* were, and has the file hold that same ledger when it ends.
C13_ArchiveAppendsOneExpedition ==
    [][\A s \in LedgerSessions : Archivar(s) =>
          LET old == led[s]
              new == led'[s]
              n == Len(old.expeditions)
          IN  /\ old.history_list # <<>>
              /\ Len(new.expeditions) = n + 1
              /\ SubSeq(new.expeditions, 1, n) = old.expeditions
              /\ new.expeditions[n + 1].records = old.history_list
              /\ new.expeditions[n + 1].total = SumNeto(old.history_list)
              /\ new.history_list = <<>>
              /\ cfg'.config.kind = "json"
              /\ cfg'.config.data.current_history = <<>>
              /\ cfg'.config.data.expeditions = new.expeditions]_vars

\* an archive has put two records, in the order they had, behind an
\* expedition that was there before
C13_Witness ==
    \E s \in LedgerSessions :
        /\ Len(led[s].expeditions) = 2
        /\ led[s].history_list = <<>>
        /\ Len(led[s].expeditions[2].records) = 2
        /\ led[s].expeditions[2].records[1] # led[s].expeditions[2].records[2]
        /\ led[s].expeditions[2].total = SumNeto(led[s].expeditions[2].records)
        /\ cfg.config = save_config(led[s])

\* C14: with an empty active list there is nothing to archive: no step of a
\* loaded session adds an expedition unless its active list held a record,
\* and the expedition a step adds holds at least one record.
C14_NoArchiveOfEmptyList ==
    [][\A s \in LedgerSessions :
          (/\ led[s].config_loaded
           /\ Len(led'[s].expeditions) > Len(led[s].expeditions))
          => /\ led[s].history_list # <<>>
             /\ led'[s].expeditions[Len(led'[s].expeditions)].records # <<>>]_vars

\* an authenticated server looks at an empty active list after it has archived
C14_Witness ==
    \E s \in LedgerSessions :
        /\ ServerControls(s) /\ Loaded(s)
        /\ led[s].history_list = <<>>
        /\ led[s].expeditions # <<>>
        /\ ~ENABLED Archivar(s)

\* C15: the expedition an archive creates is named by the date and a number
\* that counts the archives of that date: the k-th archive of a day is
\* number k.  The handler numbers it one more than the expeditions of the
\* date the ledger still holds.
C15_NameCountsArchivesOfTheDay ==
    [][\A s \in LedgerSessions : Archivar(s) =>
          led'[s].expeditions[Len(led'[s].expeditions)].name
              = ExpName(today, arch + 1)]_vars

\* C16: wherever tab3 offers Editar or Borrar on a record and the index it
\* passes lies outside the list it passes, editar_registro and
\* eliminar_registro leave the list as it is, do not save, and tell the
\* caller.  They return as after a success, with nothing shown.
C16_OutOfRangeIsReported ==
    \A s \in LedgerSessions, fd \in DateFilters, fp \in ProductFilters,
       i \in 1..MaxExp, idx \in 1..MaxRecords :
        LET view == filtered_exp(led[s].expeditions, fd, fp)
        IN  (/\ ExpeditionActions(s, view, i)
             /\ idx \in 1..Len(view[i].records)
             /\ ~InRange(led[s].expeditions[i].records, idx))
            => LET lista == led[s].expeditions[i].records
                   e == editar_registro(lista, idx, view[i].records[idx])
                   d == eliminar_registro(lista, idx)
               IN  /\ e.lista = lista /\ ~e.done /\ e.shown # ""
                   /\ d.lista = lista /\ ~d.done /\ d.shown # ""

\* C17: while the session is not an authenticated server, no step changes
\* CONFIG_FILE, and once the session has loaded its ledger no step changes
\* its active list, its expeditions or its last product.
C17_OnlyServerMutatesLedger ==
    [][\A s \in LedgerSessions :
          ~(sess[s].is_server /\ sess[s].authenticated)
          => /\ cfg'.config = cfg.config
             /\ led[s].config_loaded
                  => /\ led'[s].history_list = led[s].history_list
                     /\ led'[s].expeditions = led[s].expeditions
                     /\ led'[s].last_product = led[s].last_product]_vars

\* a session that is no authenticated server shows a ledger holding a record
C17_Witness ==
    \E s \in LedgerSessions :
        /\ Loaded(s)
        /\ ~(sess[s].is_server /\ sess[s].authenticated)
        /\ led[s].history_list # <<>>
        /\ cfg.config.kind = "json"

\* C18: the net every record stores is a multiple of 0.001 kg and equals
\* round(gross - pallet - boxes * box weight - trays * tray weight, 3) of
\* the values the record stores.  Guardar Registro stores the difference as
\* it comes.
C18_NetIsRoundedTo3 ==
    \A s \in LedgerSessions : \A r \in AllRecords(led[s]) :
        /\ r.neto % (Scale \div 10 ^ 3) = 0
        /\ r.neto = Round3(peso_neto(r, r.bruto))

\* C19: the first script run always completes; a CONFIG_FILE that is missing
\* or does not parse leaves the empty active list, no expeditions and the
\* empty last product, and a PASSWORD_FILE that is missing or does not parse
\* leaves the password admin123.
C19_LoadFallsBackToDefaults ==
    [][\A s \in LedgerSessions :
          /\ ~led[s].config_loaded => ENABLED FirstRun(s)
          /\ FirstRun(s) =>
               /\ led'[s].config_loaded
               /\ cfg.config.kind \in {"nofile", "corrupt"}
                    => /\ led'[s].history_list = <<>>
                       /\ led'[s].expeditions = <<>>
                       /\ led'[s].last_product = ""
               /\ cfg.password.kind \in {"nofile", "corrupt"}
                    => led'[s].password = "admin123"]_vars

\* a session has come up on a ledger file and a password file that do not parse
C19_Witness ==
    \E s \in LedgerSessions :
        /\ led[s].config_loaded
        /\ cfg.config.kind = "corrupt" /\ cfg.password.kind = "corrupt"
        /\ led[s].history_list = <<>> /\ led[s].expeditions = <<>>
        /\ led[s].password = "admin123"


\* C28: Borrar or Editar on a record of the expedition tab3 shows at
\* position i changes that expedition and no other one of the stored list.
\* The handlers take position i of the filtered and sorted view as a
\* position of st.session_state.expeditions.
C28_ActsOnDisplayedExpedition ==
    [][\A s \in LedgerSessions, fd \in DateFilters, fp \in ProductFilters,
          i \in 1..MaxExp, idx \in 1..MaxRecords :
          (\/ BorrarExp(s, fd, fp, i, idx)
           \/ \E form \in Forms : EditarExp(s, fd, fp, i, idx, form))
          => LET view == filtered_exp(led[s].expeditions, fd, fp)
             IN  \A k \in 1..Len(led[s].expeditions) :
                    led'[s].expeditions[k] # led[s].expeditions[k]
                      => led[s].expeditions[k] = view[i]]_vars

\* C30: the names of the expeditions a ledger holds are pairwise distinct,
\* whatever has been archived and deleted.  Archivar numbers a new
\* expedition by the count of those of the day still stored.
C30_NamesAreDistinct ==
    \A s \in LedgerSessions :
        \A i \in 1..Len(led[s].expeditions), j \in 1..Len(led[s].expeditions) :
            i # j => led[s].expeditions[i].name # led[s].expeditions[j].name

-----------------------------------------------------------------------------
(* Claims on the shared ledger file (SpecShared) *)

\* the ledger CONFIG_FILE holds, as a session starting now would load it
Persisted(c) == load_config(c.config, InitSessionLedger)

\* C29: with two authenticated servers on one ledger file no committed
\* change is lost: a save or an archive by a session, which remove nothing,
\* leave in the file every record the file held, whichever session had put
\* it there.  save_config() dumps the session's own lists, loaded once.
C29_NoCommittedChangeLost ==
    [][\A s \in SharedSessions :
          (\/ Archivar(s)
           \/ \E form \in FormsOf(s) : Guardar(s, form))
          => AllRecords(Persisted(cfg)) \subseteq AllRecords(Persisted(cfg'))]_vars

\* C31: Guardar Registro appends a record only when the weight of the store,
\* as the script run that handles the click reads it, is greater than 0;
\* otherwise the session's ledger and CONFIG_FILE stay as they are.  Every
\* record a step adds to the active list of a loaded session is the last of
\* the list, and its gross is that weight, greater than 0: none is saved from
\* the weight 0 a Detener has published.
C31_SaveNeedsPositiveGross ==
    [][\A s \in SharedSessions :
          LET peso == read_realtime_data(file, clock).peso
          IN  /\ ((\E form \in FormsOf(s) : Guardar(s, form)) /\ peso <= 0)
                    => led'[s] = led[s] /\ cfg' = cfg
              /\ (/\ led[s].config_loaded
                  /\ Len(led'[s].history_list) > Len(led[s].history_list))
                    => /\ peso > 0
                       /\ \E r \in AllRecords(led'[s]) :
                             /\ led'[s].history_list
                                   = Append(led[s].history_list, r)
                             /\ r.bruto = peso
                       /\ cfg'.config = save_config(led'[s])]_vars

\* a record has been saved from the weight the store holds, and after a
\* Detener the store says weight 0 while the record is still the only one
C31_Witness ==
    \E s \in SharedSessions :
        /\ Len(led[s].history_list) = 1
        /\ led[s].history_list[1].bruto \in LedgerWeights
        /\ cfg.config = save_config(led[s])
        /\ ServerControls(s) /\ Loaded(s)
        /\ file.kind = "json" /\ file.doc.peso = 0 /\ ~file.doc.reading

-----------------------------------------------------------------------------
(* Claims on the EL05 parser (SpecParse) *)

\* d is the first maximal run of digits of the text t
IsFirstRun(t, d) ==
    \E a \in 1..Len(t), b \in 1..Len(t) :
        /\ a <= b
        /\ d = SubSeq(t, a, b)
        /\ \A k \in a..b : t[k] \in Digits
        /\ \A k \in 1..(a - 1) : t[k] \notin Digits
        /\ b = Len(t) \/ t[b + 1] \notin Digits

\* the frame is 'M', a non-empty run ds of digits, and a carriage return
IsMarkedFrame(frame, ds) ==
    /\ ds # <<>>
    /\ \A k \in 1..Len(ds) : ds[k] \in Digits
    /\ frame = <<"M">> \o ds \o <<"CR">>

\* the weight a result carries is int(digits) / 10
WeighsTenth(out, ds) == ~out.isNone /\ out.peso_val * 10 = IntOf(ds) * Scale

\* C20 as stated: a frame of 'M', digits and CR weighs int(digits) / 10, and
\* for any frame holding a digit the run the parser uses is the first run of
\* digits of the frame.
C20_UsesFirstRunOfFrame ==
    px.formato = "el05" =>
        /\ \A n \in 1..Len(px.frame) :
              IsMarkedFrame(px.frame, SubSeq(px.frame, 2, n))
                => WeighsTenth(px.out, SubSeq(px.frame, 2, n))
        /\ (\E k \in 1..Len(px.frame) : px.frame[k] \in Digits)
              => /\ IsFirstRun(px.frame, px.out.digits)
                 /\ WeighsTenth(px.out, px.out.digits)

\* the frame as text: decode('ascii', errors='ignore') drops bytes >= 0x80
AsciiText(frame) == SelectSeq(frame, LAMBDA c : c # "x80")

\* C20, amended: a frame of 'M', digits and CR weighs int(digits) / 10, and
\* for any frame holding a digit the run the parser uses is the first run of
\* digits of the frame's text once the non-ASCII bytes are dropped, so digits
\* that only such bytes separate count as one run.
C20_UsesFirstRunOfText ==
    px.formato = "el05" =>
        /\ \A n \in 1..Len(px.frame) :
              IsMarkedFrame(px.frame, SubSeq(px.frame, 2, n))
                => WeighsTenth(px.out, SubSeq(px.frame, 2, n))
        /\ (\E k \in 1..Len(px.frame) : px.frame[k] \in Digits)
              => /\ IsFirstRun(AsciiText(px.frame), px.out.digits)
                 /\ WeighsTenth(px.out, px.out.digits)

\* the parser has read 1.7 kg from the frame M17\r
C20_Witness ==
    /\ px.formato = "el05"
    /\ px.frame = <<"M", "1", "7", "CR">>
    /\ px.out.peso_val = 17 * (Scale \div 10)

\* C21: a frame that holds no digit (the empty frame of a read timeout, a
\* frame of non-ASCII noise, a frame of letters) makes parse_el05_corregido
\* return None: no reading, and nothing raised.
C21_NoDigitsIsNone ==
    (/\ px.formato = "el05"
     /\ \A k \in 1..Len(px.frame) : px.frame[k] \notin Digits)
    => px.out.isNone /\ px.out.peso_none

\* the parser has returned None for a frame of noise around the marker
C21_Witness ==
    /\ px.formato = "el05"
    /\ px.frame = <<"x80", "M", "x80", "CR">>
    /\ px.out.isNone

-----------------------------------------------------------------------------
(* Claims on the COND parser (SpecParse) *)

\* s without the characters of W at its end
StripTrailing(s, W) ==
    IF \A i \in 1..Len(s) : s[i] \in W THEN <<>>
    ELSE SubSeq(s, 1, CHOOSE b \in 1..Len(s) :
                        s[b] \notin W /\ \A j \in (b + 1)..Len(s) : s[j] \in W)

\* t[a..b] reads as an optional '-', digits and an optional '.' and digits
IsDecimalAt(t, a, b) ==
    LET i == IF t[a] = "-" THEN a + 1 ELSE a
    IN  /\ i <= b
        /\ \/ \A k \in i..b : t[k] \in Digits
           \/ \E p \in (i + 1)..(b - 1) :
                 /\ t[p] = "."
                 /\ \A k \in (i..b) \ {p} : t[k] \in Digits

\* the first signed or unsigned decimal of the text t, <<>> when it has none:
\* the one that starts first and, from there, reaches furthest
FirstDecimal(t) ==
    LET M == {m \in (1..Len(t)) \X (1..Len(t)) :
                 m[1] <= m[2] /\ IsDecimalAt(t, m[1], m[2])}
    IN  IF M = {} THEN <<>>
        ELSE LET m == CHOOSE m \in M : \A n \in M :
                          m[1] < n[1] \/ (m[1] = n[1] /\ m[2] >= n[2])
             IN  SubSeq(t, m[1], m[2])

\* float(tok) of a decimal tok, in units of 1/Scale kg
DecimalValue(tok) ==
    LET u == IF tok[1] = "-" THEN Tail(tok) ELSE tok
        p == IF \E k \in 1..Len(u) : u[k] = "."
             THEN CHOOSE k \in 1..Len(u) : u[k] = "." ELSE Len(u) + 1
        fs == SubSeq(u, p + 1, Len(u))
        frac[k \in 0..Len(fs)] ==
            IF k = 0 THEN 0
            ELSE frac[k - 1] + DigitVal(fs[k]) * (Scale \div 10 ^ k)
        v == IntOf(SubSeq(u, 1, p - 1)) * Scale + frac[Len(fs)]
    IN  IF tok[1] = "-" THEN -v ELSE v

\* out is what the COND contract gives for the text t0 left by the strip of
\* CR and LF: one leading STX dropped, one leading '-' taken as the sign,
\* the first decimal of the rest times that sign, no weight without one
CondContract(t0, out) ==
    LET t1 == IF t0 # <<>> /\ t0[1] = "STX" THEN Tail(t0) ELSE t0
        neg == t1 # <<>> /\ t1[1] = "-"
        tok == FirstDecimal(IF neg THEN Tail(t1) ELSE t1)
    IN  IF tok = <<>> THEN out.peso_none
        ELSE /\ ~out.peso_none
             /\ out.peso_val = (IF neg THEN -1 ELSE 1) * DecimalValue(tok)

\* C22 as stated: the weight parse_cond returns is what the contract gives
\* for the frame with the CR and LF at its end stripped.
C22_SignTimesFirstDecimal ==
    px.formato = "cond" =>
        CondContract(StripTrailing(px.frame, {"CR", "LF"}), px.out)

\* C22, amended: the weight parse_cond returns is what the contract gives
\* for the frame with the CR and LF at both of its ends stripped:
\* strip('\r\n') also takes them from the front, so that an STX or a '-'
\* behind a leading CR still counts as leading.
C22_SignTimesFirstDecimalOfStripped ==
    px.formato = "cond" =>
        CondContract(StripSet(px.frame, {"CR", "LF"}), px.out)

\* parse_cond has read -1.7 kg from a frame with a leading '-'
C22_Witness ==
    /\ px.formato = "cond"
    /\ px.frame = <<"-", "1", ".", "7">>
    /\ ~px.out.peso_none
    /\ px.out.peso_val = -(17 * (Scale \div 10))

\* the unit and the type letters
UnitLetters == {"K", "L", "k", "l"}
TypeLetters == {"G", "N", "g", "n"}

\* v is the upper-cased first letter of W in the frame, "" (None) without one
IsFirstLetter(frame, W, v) ==
    IF \A k \in 1..Len(frame) : frame[k] \notin W THEN v = ""
    ELSE \E k \in 1..Len(frame) :
            /\ frame[k] \in W
            /\ \A j \in 1..(k - 1) : frame[j] \notin W
            /\ <<frame[k], v>> \in
                  {<<"K", "K">>, <<"k", "K">>, <<"L", "L">>, <<"l", "L">>,
                   <<"G", "G">>, <<"g", "G">>, <<"N", "N">>, <<"n", "N">>}

\* the frame without its unit and type letters
WithoutLetters(frame) ==
    SelectSeq(frame, LAMBDA c : c \notin UnitLetters \cup TypeLetters)

\* the frame with each unit or type letter replaced by a letter that is none
WithOtherLetters(frame) ==
    [k \in 1..Len(frame) |->
        IF frame[k] \in UnitLetters \cup TypeLetters THEN "A" ELSE frame[k]]

\* C23 as stated: unit is the upper-cased first K/L letter, type the
\* upper-cased first G/N letter, None without one, and the frame weighs what
\* it weighs without these letters: the same weight, or no weight in both.
C23_LettersNeverChangeWeight ==
    px.formato = "cond" =>
        /\ IsFirstLetter(px.frame, UnitLetters, px.out.unidad)
        /\ IsFirstLetter(px.frame, TypeLetters, px.out.tipo)
        /\ LET bare == parse_cond(WithoutLetters(px.frame))
           IN  /\ bare.peso_none = px.out.peso_none
               /\ bare.peso_val = px.out.peso_val

\* C23, amended: unit and type are as stated; whether a weight is produced
\* is the same without these letters; and the weight is the same when each
\* of them is replaced by a letter that is no indicator: they bear on the
\* weight only as any character that is not part of a number does (a letter
\* inside a number ends the number there).
C23_LettersAreOnlySeparators ==
    px.formato = "cond" =>
        /\ IsFirstLetter(px.frame, UnitLetters, px.out.unidad)
        /\ IsFirstLetter(px.frame, TypeLetters, px.out.tipo)
        /\ parse_cond(WithoutLetters(px.frame)).peso_none = px.out.peso_none
        /\ LET other == parse_cond(WithOtherLetters(px.frame))
           IN  /\ other.peso_none = px.out.peso_none
               /\ other.peso_val = px.out.peso_val

\* parse_cond has read 7 kg, type N and unit K from one frame
C23_Witness ==
    /\ px.formato = "cond"
    /\ px.frame = <<"7", "n", "K", "LF">>
    /\ px.out.peso_val = 7 * Scale
    /\ px.out.unidad = "K" /\ px.out.tipo = "N"

====
